---- MODULE Spec2Model ----
(***************************************************************************)
(* Model of extraction/summarise_posters.py: one run of                    *)
(* create_poster_summary_document_html().                                  *)
(*                                                                         *)
(* Text is modelled as a sequence of atoms.  An atom is a string that is   *)
(* either one of the five characters html.escape rewrites (& < > " ') or a *)
(* piece of text that contains none of them.  A model response is a        *)
(* sequence of tokens (fence, tag, whitespace, braces, ...) that Flatten   *)
(* turns into atoms the way the characters of response.text read.          *)
(***************************************************************************)
EXTENDS Integers, Sequences, FiniteSets, TLC

VARIABLES
    pc,          \* position of the control thread
    dirExists,   \* os.path.isdir(image_folder)
    folder,      \* image_folder, as typed by the user
    dirFiles,    \* the names os.listdir(image_folder) returns
    outName,     \* output_filename after the ".html" normalisation
    fileOpen,    \* "none" | "open" | "closed": the output file
    doc,         \* the lines written to html_file, in order
    files,       \* sorted(os.listdir(image_folder))
    idx,         \* index in files of the file the for loop is at
    resp,        \* response.text of the model call in flight
    norm,        \* what the inner try/except made of resp
    locals,      \* the function's local variables that outlive an iteration
    console,     \* what print() has shown
    log,         \* one record per image processed: its input and where its block is
    modelCalls,  \* number of generate_content calls that were started
    exitCode     \* -1 while running, then the status the process ends with

vars == <<pc, dirExists, folder, dirFiles, outName, fileOpen, doc, files, idx,
          resp, norm, locals, console, log, modelCalls, exitCode>>

(***************************************************************************)
(* Bounds of the model.                                                    *)
(***************************************************************************)
MaxFiles == 2
MaxTextLen == 6

(***************************************************************************)
(* Generic helpers on sequences.                                           *)
(***************************************************************************)
Range(s) == {s[i] : i \in 1..Len(s)}

(***************************************************************************)
(* html.escape(s), quote=True: five str.replace calls, "&" first.          *)
(* An entity is written as the atom "&" followed by the atom of its name.  *)
(***************************************************************************)
RECURSIVE ReplaceAll(_, _, _)
ReplaceAll(s, ch, rep) ==
    IF \A i \in 1..Len(s) : s[i] # ch THEN s
    ELSE (IF Head(s) = ch THEN rep ELSE <<Head(s)>>) \o ReplaceAll(Tail(s), ch, rep)

\* html.escape(s, quote=False): the quote characters are left as they are.
EscapeNoQuote(s) ==
    LET s1 == ReplaceAll(s, "&", <<"&", "amp;">>)
        s2 == ReplaceAll(s1, "<", <<"&", "lt;">>)
    IN  ReplaceAll(s2, ">", <<"&", "gt;">>)

Escape(s) ==
    LET s1 == ReplaceAll(s, "&", <<"&", "amp;">>)
        s2 == ReplaceAll(s1, "<", <<"&", "lt;">>)
        s3 == ReplaceAll(s2, ">", <<"&", "gt;">>)
        s4 == ReplaceAll(s3, "\"", <<"&", "quot;">>)
    IN  ReplaceAll(s4, "'", <<"&", "#x27;">>)

(***************************************************************************)
(* File names: str.lower, str.endswith, sorted, os.path.splitext and       *)
(* os.path.join on atoms.  The atoms of a name are single characters or    *)
(* one of the extension words; their first characters are all different,   *)
(* so comparing atoms by first character is comparing the strings.         *)
(***************************************************************************)
CodePoint(a) ==
    CASE a = "\"" -> 34 [] a = "&" -> 38 [] a = "'" -> 39 [] a = "." -> 46
      [] a = "<" -> 60 [] a = ">" -> 62 [] a = "B" -> 66 [] a = "PNG" -> 80
      [] a = "a" -> 97 [] a = "heic" -> 104 [] a = "jpeg" -> 106
      [] a = "png" -> 112 [] a = "txt" -> 116 [] OTHER -> 120

LowerAtom(a) == CASE a = "B" -> "b" [] a = "PNG" -> "png" [] OTHER -> a

Lower(name) == [i \in 1..Len(name) |-> LowerAtom(name[i])]

EndsWith(s, suffix) ==
    /\ Len(s) >= Len(suffix)
    /\ SubSeq(s, Len(s) - Len(suffix) + 1, Len(s)) = suffix

ImageSuffixes == {<<".", "png">>, <<".", "jpg">>, <<".", "jpeg">>, <<".", "heic">>}

IsImage(filename) == \E suf \in ImageSuffixes : EndsWith(Lower(filename), suf)

RECURSIVE LexLess(_, _)
LexLess(a, b) ==
    IF b = <<>> THEN FALSE
    ELSE IF a = <<>> THEN TRUE
    ELSE IF Head(a) = Head(b) THEN LexLess(Tail(a), Tail(b))
    ELSE CodePoint(Head(a)) < CodePoint(Head(b))

RECURSIVE Sorted(_)
Sorted(S) ==
    IF S = {} THEN <<>>
    ELSE LET m == CHOOSE x \in S : \A y \in S \ {x} : LexLess(x, y)
         IN  <<m>> \o Sorted(S \ {m})

\* os.path.splitext(filename)[0]: cut at the last dot, unless only dots precede it.
Stem(filename) ==
    LET dots == {i \in 1..Len(filename) : filename[i] = "."}
    IN  IF dots = {} THEN filename
        ELSE LET d == CHOOSE i \in dots : \A j \in dots : j <= i
             IN  IF \E i \in 1..(d - 1) : filename[i] # "."
                 THEN SubSeq(filename, 1, d - 1)
                 ELSE filename

\* os.path.join(image_folder, filename); a listed name never starts with "/".
JoinPath(dir, filename) ==
    IF dir = <<>> \/ dir[Len(dir)] = "/" THEN dir \o filename
    ELSE dir \o <<"/">> \o filename

(***************************************************************************)
(* Tokens of a model response.  Every token is a record of the same shape. *)
(*   "fence" three backticks "json"  the tag word (as prose: not JSON)     *)
(*   " "    one whitespace   "{" "}" the braces     "null"  a JSON value   *)
(*                                                   that is not an object *)
(*   pair   one member "k": v of an object, v a string (txt) or not;       *)
(*          adjacent members are separated by a comma                      *)
(*   prose  a word of running text that starts with a letter               *)
(* String values hold no double quote or backslash, prose holds no brace   *)
(* and no backtick.                                                        *)
(***************************************************************************)
Tok(t) == [t |-> t, k |-> "", txt |-> FALSE, s |-> <<>>]
F == Tok("fence")
J == Tok("json")
W == Tok(" ")
LB == Tok("{")
RB == Tok("}")
NUL == Tok("null")
Pair(k, v) == [t |-> "pair", k |-> k, txt |-> TRUE, s |-> v]
NonText(k) == [t |-> "pair", k |-> k, txt |-> FALSE, s |-> <<>>]
Prose(s) == [t |-> "prose", k |-> "", txt |-> TRUE, s |-> s]

\* The characters of one token, as atoms.
TokenAtoms(tk) ==
    CASE tk.t = "pair" ->
            <<"\"", tk.k, "\"", ":">> \o
            (IF tk.txt THEN <<"\"">> \o tk.s \o <<"\"">> ELSE <<"null">>)
      [] tk.t = "prose" -> tk.s
      [] OTHER -> <<tk.t>>

\* response.text as atoms.
RECURSIVE Flatten(_)
Flatten(text) ==
    IF text = <<>> THEN <<>>
    ELSE TokenAtoms(Head(text)) \o
         (IF Len(text) > 1 /\ text[1].t = "pair" /\ text[2].t = "pair"
          THEN <<",">> ELSE <<>>) \o
         Flatten(Tail(text))

\* str.strip() on tokens.
RECURSIVE LStrip(_)
LStrip(text) ==
    IF text # <<>> /\ Head(text) = W THEN LStrip(Tail(text)) ELSE text

RECURSIVE RStrip(_)
RStrip(text) ==
    IF text # <<>> /\ text[Len(text)] = W
    THEN RStrip(SubSeq(text, 1, Len(text) - 1)) ELSE text

Strip(text) == RStrip(LStrip(text))

MinOf(S) == CHOOSE x \in S : \A y \in S : x <= y
MaxOf(S) == CHOOSE x \in S : \A y \in S : y <= x

(***************************************************************************)
(* The three re.search calls.  Each returns [found, group]: group(1) of    *)
(* the leftmost match.                                                     *)
(***************************************************************************)
\* \s*(.*?)\s*FENCE matched from index from: the greedy \s* takes the
\* whitespace run, the lazy group stops before the whitespace that precedes
\* the first fence.
FenceGroup(text, from) ==
    LET close == MinOf({j \in from..Len(text) : text[j] = F})
        inner == SubSeq(text, from, close - 1)
    IN  Strip(inner)

\* re.search(r'FENCEjson\s*(.*?)\s*FENCE', text, re.DOTALL), FENCE three backticks
SearchTagged(text) ==
    LET starts == {i \in 1..(Len(text) - 2) :
                      /\ text[i] = F
                      /\ text[i + 1] = J
                      /\ \E j \in (i + 2)..Len(text) : text[j] = F}
    IN  IF starts = {} THEN [found |-> FALSE, group |-> <<>>]
        ELSE [found |-> TRUE, group |-> FenceGroup(text, MinOf(starts) + 2)]

\* re.search(r'FENCE\s*(.*?)\s*FENCE', text, re.DOTALL)
SearchUntagged(text) ==
    LET starts == {i \in 1..(Len(text) - 1) :
                      /\ text[i] = F
                      /\ \E j \in (i + 1)..Len(text) : text[j] = F}
    IN  IF starts = {} THEN [found |-> FALSE, group |-> <<>>]
        ELSE [found |-> TRUE, group |-> FenceGroup(text, MinOf(starts) + 1)]

\* re.search(r'({.*})', text, re.DOTALL): greedy, first "{" to last "}".
SearchBrace(text) ==
    LET closes == {j \in 1..Len(text) : text[j] = RB}
        starts == {i \in 1..Len(text) :
                      text[i] = LB /\ \E j \in closes : j > i}
    IN  IF starts = {} THEN [found |-> FALSE, group |-> <<>>]
        ELSE [found |-> TRUE,
              group |-> SubSeq(text, MinOf(starts), MaxOf(closes))]

\* json_match = tagged or untagged or brace; the text handed to json.loads
\* is json_match.group(1).strip(), or response.text.strip() without a match.
SelectUntaggedFirst(text) ==
    LET u == SearchUntagged(text)
        t == SearchTagged(text)
        b == SearchBrace(text)
    IN  IF u.found THEN [which |-> "untagged", cand |-> Strip(u.group)]
        ELSE IF t.found THEN [which |-> "tagged", cand |-> Strip(t.group)]
        ELSE IF b.found THEN [which |-> "brace", cand |-> Strip(b.group)]
        ELSE [which |-> "whole", cand |-> Strip(text)]

SelectCandidate(text) ==
    LET t == SearchTagged(text)
        u == SearchUntagged(text)
        b == SearchBrace(text)
    IN  IF t.found THEN [which |-> "tagged", cand |-> Strip(t.group)]
        ELSE IF u.found THEN [which |-> "untagged", cand |-> Strip(u.group)]
        ELSE IF b.found THEN [which |-> "brace", cand |-> Strip(b.group)]
        ELSE [which |-> "whole", cand |-> Strip(text)]

(***************************************************************************)
(* json.loads(candidate): "object" with its members, "other" for a value   *)
(* that is not an object, "fail" when the text is not JSON.                *)
(***************************************************************************)
Decode(cand) ==
    LET s == Strip(cand)
        n == Len(s)
        inner == Strip(SubSeq(s, 2, n - 1))
    IN  IF s = <<NUL>> THEN [kind |-> "other", members |-> <<>>]
        ELSE IF n >= 2 /\ s[1] = LB /\ s[n] = RB
                /\ \A i \in 1..Len(inner) : inner[i].t = "pair"
             THEN [kind |-> "object", members |-> inner]
        ELSE [kind |-> "fail", members |-> <<>>]

\* poster_data.get(key, default): the last member with that key wins.
HasKey(members, key) == \E i \in 1..Len(members) : members[i].k = key

Get(members, key, default) ==
    IF HasKey(members, key)
    THEN members[MaxOf({i \in 1..Len(members) : members[i].k = key})]
    ELSE Pair(key, default)

(***************************************************************************)
(* The local variables of create_poster_summary_document_html that an      *)
(* iteration assigns.  They belong to the function, not to the iteration:  *)
(* a name bound by one image stays bound for the next.                     *)
(***************************************************************************)
LocalNames == {"poster_title", "authors", "research_question", "methods",
               "results", "conclusions", "summary_text"}

Unbound == [bound |-> FALSE, v |-> <<>>]
Bound(v) == [bound |-> TRUE, v |-> v]
NoLocals == [n \in LocalNames |-> Unbound]

\* A variant in which every .get() defaults to the empty string.
FieldsEmptyDefaults == <<
    [name |-> "poster_title", key |-> "title", default |-> <<>>],
    [name |-> "authors", key |-> "authors", default |-> <<>>],
    [name |-> "research_question", key |-> "research_question", default |-> <<>>],
    [name |-> "methods", key |-> "methods", default |-> <<>>],
    [name |-> "results", key |-> "results", default |-> <<>>],
    [name |-> "conclusions", key |-> "conclusions", default |-> <<>>] >>

\* The six assignments, in order: local name, key, default of .get().
Fields == <<
    [name |-> "poster_title", key |-> "title", default |-> <<"Untitled Poster">>],
    [name |-> "authors", key |-> "authors", default |-> <<"Unknown Authors">>],
    [name |-> "research_question", key |-> "research_question", default |-> <<>>],
    [name |-> "methods", key |-> "methods", default |-> <<>>],
    [name |-> "results", key |-> "results", default |-> <<>>],
    [name |-> "conclusions", key |-> "conclusions", default |-> <<>>] >>

\* html.escape(poster_data.get(key, default)) for field i onwards; html.escape
\* raises AttributeError on a value that is not a string, which ends the
\* try block with the earlier assignments done.
RECURSIVE ExtractFrom(_, _, _)
ExtractFrom(members, i, loc) ==
    IF i > Len(Fields) THEN [ok |-> TRUE, loc |-> loc]
    ELSE LET val == Get(members, Fields[i].key, Fields[i].default)
         IN  IF ~val.txt THEN [ok |-> FALSE, loc |-> loc]
             ELSE ExtractFrom(members, i + 1,
                      [loc EXCEPT ![Fields[i].name] = Bound(Escape(val.s))])

\* The except branch: title from the file name, full text as summary.
Fallback(loc, filename, text) ==
    [loc EXCEPT !["poster_title"] = Bound(Escape(Stem(filename))),
                !["authors"] = Bound(<<"Unknown Authors">>),
                !["summary_text"] = Bound(Escape(Flatten(text)))]

\* A variant that tries the patterns in turn until one decodes to an object.
NormaliseFirstSuccess(loc, filename, text) ==
    LET t == SearchTagged(text)
        u == SearchUntagged(text)
        b == SearchBrace(text)
        cands == (IF t.found THEN <<[which |-> "tagged", cand |-> Strip(t.group)]>> ELSE <<>>)
              \o (IF u.found THEN <<[which |-> "untagged", cand |-> Strip(u.group)]>> ELSE <<>>)
              \o (IF b.found THEN <<[which |-> "brace", cand |-> Strip(b.group)]>> ELSE <<>>)
              \o <<[which |-> "whole", cand |-> Strip(text)]>>
        good == {i \in 1..Len(cands) : Decode(cands[i].cand).kind = "object"}
        sel == IF good = {} THEN cands[1] ELSE cands[MinOf(good)]
        dec == Decode(sel.cand)
        ex == ExtractFrom(dec.members, 1, loc)
    IN  IF dec.kind = "object" /\ ex.ok
        THEN [outcome |-> "record", which |-> sel.which, cand |-> sel.cand,
              decoded |-> dec.kind, loc |-> ex.loc]
        ELSE [outcome |-> "fallback", which |-> sel.which, cand |-> sel.cand,
              decoded |-> dec.kind,
              loc |-> Fallback(IF dec.kind = "object" THEN ex.loc ELSE loc, filename, text)]

\* The inner try/except: select, decode, extract, or fall back.  A decoded
\* value that is not an object has no .get: AttributeError before any
\* assignment.
Normalise(loc, filename, text) ==
    LET sel == SelectCandidate(text)
        dec == Decode(sel.cand)
        ex == ExtractFrom(dec.members, 1, loc)
    IN  IF dec.kind = "object" /\ ex.ok
        THEN [outcome |-> "record", which |-> sel.which, cand |-> sel.cand,
              decoded |-> dec.kind, loc |-> ex.loc]
        ELSE [outcome |-> "fallback", which |-> sel.which, cand |-> sel.cand,
              decoded |-> dec.kind,
              loc |-> Fallback(IF dec.kind = "object" THEN ex.loc ELSE loc, filename, text)]

(***************************************************************************)
(* The document.  A line is one html_file.write call: the name of its      *)
(* static template and the interpolated values.                            *)
(***************************************************************************)
Line(tpl, args) == [tpl |-> tpl, args |-> args]

Header == Line("header", <<>>)
Footer == Line("footer", <<>>)

\* A write to come: the template and what its f-string reads.  "@path" is
\* html.escape(image_path); the other names are local variables.
Req(tpl, refs) == [tpl |-> tpl, refs |-> refs]

Section(title, var) ==
    << Req("section_open", <<>>), Req(title, <<>>), Req("section_p", <<var>>),
       Req("section_close", <<>>) >>

EntryHead ==
    << Req("entry_open", <<>>),
       Req("entry_h2", <<"poster_title">>),
       Req("entry_authors", <<"authors">>),
       Req("entry_a_open", <<"@path">>),
       Req("entry_img", <<"@path", "poster_title">>),
       Req("entry_a_close", <<>>) >>

StructuredBody ==
    Section("title_research_question", "research_question")
    \o Section("title_methods", "methods")
    \o Section("title_results", "results")
    \o Section("title_conclusions", "conclusions")

SummaryBody == << Req("summary_h3", <<>>), Req("summary_p", <<"summary_text">>) >>

\* if 'research_question' in locals(): ... else: ...
EntryRequests(loc) ==
    EntryHead
    \o (IF loc["research_question"].bound THEN StructuredBody ELSE SummaryBody)
    \o << Req("entry_close", <<>>) >>

RefValue(ref, loc, path) == IF ref = "@path" THEN Escape(path) ELSE loc[ref].v
RefBound(ref, loc) == ref = "@path" \/ loc[ref].bound

\* The writes in order; the first f-string that reads an unbound local raises
\* UnboundLocalError before its write, with the earlier writes done.
Emit(reqs, loc, path) ==
    LET raising == {i \in 1..Len(reqs) :
                       \E j \in 1..Len(reqs[i].refs) : ~RefBound(reqs[i].refs[j], loc)}
        written == IF raising = {} THEN Len(reqs) ELSE MinOf(raising) - 1
        value(r) == [j \in 1..Len(r.refs) |-> RefValue(r.refs[j], loc, path)]
    IN  [lines |-> [i \in 1..written |-> Line(reqs[i].tpl, value(reqs[i]))],
         err |-> IF raising = {} THEN ""
                 ELSE LET r == reqs[MinOf(raising)]
                      IN  r.refs[MinOf({j \in 1..Len(r.refs) : ~RefBound(r.refs[j], loc)})]]

\* str(e) of the UnboundLocalError: it names the variable in single quotes.
UnboundMessage(var) ==
    <<"cannot access local variable ", "'", var, "'",
      " where it is not associated with a value">>

\* The outer except branch.
ErrorBlock(filename, path, msg) ==
    << Line("err_open", <<>>),
       Line("err_h2", <<Escape(filename)>>),
       Line("err_authors", <<>>),
       Line("err_a_open", <<Escape(path)>>),
       Line("err_img", <<Escape(path)>>),
       Line("err_a_close", <<>>),
       Line("err_p", <<Escape(msg)>>),
       Line("err_close", <<>>) >>

Msg(kind, arg) == [kind |-> kind, arg |-> arg]

\* Lines 179-226 with the locals as the inner try/except left them: the
\* entry, then (if a write raised) the error block.
WriteEntry(loc, filename, path) ==
    LET out == Emit(EntryRequests(loc), loc, path)
        failed == out.err # ""
    IN  [block |-> out.lines \o
                   (IF failed THEN ErrorBlock(filename, path, UnboundMessage(out.err))
                    ELSE <<>>),
         console |-> IF failed THEN <<Msg("error_processing", filename)>> ELSE <<>>]

\* Everything one iteration does with a response, from given locals.
ProcessResponse(loc, filename, path, text) ==
    WriteEntry(Normalise(loc, filename, text).loc, filename, path)

(***************************************************************************)
(* The environment: what the directory holds, what the user types, what    *)
(* the model call returns or raises.                                       *)
(***************************************************************************)
FilePool ==
    { <<"B", ".", "PNG">>,            \* B.PNG: matches in upper case, sorts before "a..."
      <<"a", "<", "'", ".", "jpeg">>, \* a<'.jpeg
      <<".", "png">>,                 \* .png: matches the filter, has no extension
      <<"a", ".", "txt">>,            \* a.txt: not an image
      <<"png">>                       \* png: no dot, not an image
    }

Folders == { <<"d", "&", "\"">>, <<"d", "/">> }

TypedNames == { <<"out">>, <<"R", ".", "HTML">> }

ImageErrors == { <<"cannot identify image file ", "'", "x", "'">> }
ModelErrors == { <<"429 quota ", "<", "exceeded", ">", " ", "&", " retry">> }

Obj(members) == <<LB>> \o members \o <<RB>>
Fenced(body) == <<F, J, W>> \o body \o <<W, F>>

FullMembers ==
    << Pair("title", <<"T", "<", "i", ">">>),
       Pair("authors", <<"A", "&", "B">>),
       Pair("research_question", <<"Q", "'">>),
       Pair("methods", <<"M">>),
       Pair("results", <<"R", ">">>),
       Pair("conclusions", <<"C">>) >>

Responses ==
    { \* prose, then a tagged fence with all six keys
      <<Prose(<<"Here">>), W>> \o Fenced(Obj(FullMembers)),
      \* prose only
      <<Prose(<<"a", "<", "b", ">", "&", "'", "\"">>)>>,
      \* an object with no key at all
      Obj(<<>>),
      \* some keys, out of order, one of them twice
      Obj(<<Pair("methods", <<"m2">>), Pair("title", <<"t1">>), Pair("title", <<"t2", "&">>)>>),
      \* research_question is text, methods is not
      Obj(<<Pair("title", <<"t3">>), Pair("research_question", <<"q3">>), NonText("methods")>>),
      \* authors is not text (a list)
      Obj(<<Pair("title", <<"t4">>), NonText("authors"), Pair("research_question", <<"q4">>)>>),
      \* all keys, conclusions is not text
      Obj(SubSeq(FullMembers, 1, 5) \o <<NonText("conclusions")>>),
      \* valid JSON that is not an object
      <<NUL>>,
      \* a tagged fence that does not decode, then an object that would
      <<F, J, W, Prose(<<"oops">>), W, F, W>> \o Obj(<<Pair("title", <<"t5">>)>>),
      \* an untagged fence around an object, an object before it
      Obj(<<>>) \o <<W, F, W>> \o Obj(<<Pair("results", <<"r6">>)>>) \o <<W, F>>
    }

\* No response has been normalised.
NoNorm == [outcome |-> "error", which |-> "", cand |-> <<>>, decoded |-> ""]

(***************************************************************************)
(* Initial state: the script has been started, nothing has been typed.     *)
(***************************************************************************)
Init ==
    /\ pc = "start"
    /\ dirExists \in BOOLEAN
    /\ folder \in Folders
    /\ dirFiles \in {S \in SUBSET FilePool : Cardinality(S) <= MaxFiles}
    /\ (~dirExists => dirFiles = {})
    /\ outName = <<>>
    /\ fileOpen = "none"
    /\ doc = <<>>
    /\ files = <<>>
    /\ idx = 0
    /\ resp = <<>>
    /\ norm = NoNorm
    /\ locals = NoLocals
    /\ console = <<>>
    /\ log = <<>>
    /\ modelCalls = 0
    /\ exitCode = -1

(***************************************************************************)
(* Lines 20-23: the folder is not a directory.  The function prints and    *)
(* returns; the script then ends normally.                                 *)
(***************************************************************************)
Abort ==
    /\ pc = "start"
    /\ ~dirExists
    /\ console' = Append(console, Msg("error_no_folder", folder))
    /\ pc' = "aborted"
    /\ exitCode' = 0
    /\ UNCHANGED <<dirExists, folder, dirFiles, outName, fileOpen, doc, files,
                   idx, resp, norm, locals, log, modelCalls>>

\* Lines 26-28: ".html" is appended unless the name ends with it in any case.
OutputName(typed) ==
    IF EndsWith([i \in 1..Len(typed) |->
                    IF typed[i] = "HTML" THEN "html" ELSE LowerAtom(typed[i])],
                <<".", "html">>)
    THEN typed ELSE typed \o <<".", "html">>

(***************************************************************************)
(* Lines 26-119: the output name is read, the file is created, the header  *)
(* is written, the directory is listed and sorted.                         *)
(***************************************************************************)
Open ==
    /\ pc = "start"
    /\ dirExists
    /\ \E typed \in TypedNames : outName' = OutputName(typed)
    /\ fileOpen' = "open"
    /\ doc' = <<Header>>
    /\ console' = Append(console, Msg("processing_poster_images", <<>>))
    /\ files' = Sorted(dirFiles)
    /\ idx' = 1
    /\ pc' = "loop"
    /\ UNCHANGED <<dirExists, folder, dirFiles, resp, norm, locals, log,
                   modelCalls, exitCode>>

\* Line 121 is false: the file is passed over.
SkipFile ==
    /\ pc = "loop"
    /\ idx <= Len(files)
    /\ ~IsImage(files[idx])
    /\ idx' = idx + 1
    /\ UNCHANGED <<pc, dirExists, folder, dirFiles, outName, fileOpen, doc,
                   files, resp, norm, locals, console, log, modelCalls, exitCode>>

\* The record of one image: its input, what the normaliser made of it, the
\* locals it was written from, and the lines of the document its iteration
\* wrote (first to last).
LogEntry(filename, path, kind, text, msg, nrm, loc, block) ==
    [file |-> filename, path |-> path, kind |-> kind, text |-> text, msg |-> msg,
     outcome |-> nrm.outcome, which |-> nrm.which, cand |-> nrm.cand,
     decoded |-> nrm.decoded, loc |-> loc,
     first |-> Len(doc) + 1, last |-> Len(doc) + Len(block)]

\* What the outer except branch does for an image whose try block raised
\* before anything was written.
FailImage(kind, msg) ==
    LET filename == files[idx]
        path == JoinPath(folder, filename)
        block == ErrorBlock(filename, path, msg)
    IN  /\ console' = console \o <<Msg("processing", filename),
                                   Msg("error_processing", filename)>>
        /\ doc' = doc \o block
        /\ log' = Append(log, LogEntry(filename, path, kind, <<>>, msg,
                                       NoNorm, locals, block))
        /\ idx' = idx + 1
        /\ UNCHANGED <<pc, dirExists, folder, dirFiles, outName, fileOpen, files,
                       resp, norm, locals, exitCode>>

\* The run stops at the failing image: no later image, no footer.
ModelFailsAbort ==
    /\ pc = "loop"
    /\ idx <= Len(files)
    /\ IsImage(files[idx])
    /\ \E msg \in ModelErrors :
          /\ console' = console \o <<Msg("processing", files[idx]),
                                     Msg("error_processing", files[idx])>>
          /\ log' = Append(log, LogEntry(files[idx], JoinPath(folder, files[idx]),
                                         "model_error", <<>>, msg, NoNorm, locals,
                                         ErrorBlock(files[idx],
                                                    JoinPath(folder, files[idx]), msg)))
          /\ doc' = doc \o ErrorBlock(files[idx], JoinPath(folder, files[idx]), msg)
    /\ modelCalls' = modelCalls + 1
    /\ pc' = "done"
    /\ fileOpen' = "closed"
    /\ exitCode' = 1
    /\ UNCHANGED <<dirExists, folder, dirFiles, outName, files, idx, resp, norm,
                   locals>>

\* Line 127: Image.open raises; no model call is made.
ImageFails ==
    /\ pc = "loop"
    /\ idx <= Len(files)
    /\ IsImage(files[idx])
    /\ \E msg \in ImageErrors : FailImage("image_error", msg)
    /\ UNCHANGED modelCalls

\* Lines 127-145: the image opens, generate_content raises.
ModelFails ==
    /\ pc = "loop"
    /\ idx <= Len(files)
    /\ IsImage(files[idx])
    /\ \E msg \in ModelErrors : FailImage("model_error", msg)
    /\ modelCalls' = modelCalls + 1

\* Lines 127-145: the image opens, generate_content returns a response.
ModelReturns ==
    /\ pc = "loop"
    /\ idx <= Len(files)
    /\ IsImage(files[idx])
    /\ resp' \in Responses
    /\ modelCalls' = modelCalls + 1
    /\ console' = Append(console, Msg("processing", files[idx]))
    /\ pc' = "parse"
    /\ UNCHANGED <<dirExists, folder, dirFiles, outName, fileOpen, doc, files,
                   idx, norm, locals, log, exitCode>>

\* Lines 148-175: the inner try/except on the response in flight.
Parse ==
    /\ pc = "parse"
    /\ LET r == Normalise(locals, files[idx], resp)
       IN  /\ locals' = r.loc
           /\ norm' = [outcome |-> r.outcome, which |-> r.which, cand |-> r.cand,
                       decoded |-> r.decoded]
           /\ console' = IF r.outcome = "fallback"
                         THEN Append(console, Msg("could_not_parse", files[idx]))
                         ELSE console
    /\ pc' = "write"
    /\ UNCHANGED <<dirExists, folder, dirFiles, outName, fileOpen, doc, files,
                   idx, resp, log, modelCalls, exitCode>>

\* Lines 179-226: the entry is written from the locals; a write that raises
\* is followed by the error block.
Write ==
    /\ pc = "write"
    /\ LET filename == files[idx]
           path == JoinPath(folder, filename)
           w == WriteEntry(locals, filename, path)
       IN  /\ doc' = doc \o w.block
           /\ console' = console \o w.console
           /\ log' = Append(log, LogEntry(filename, path, "text", resp, <<>>,
                                          norm, locals, w.block))
    /\ idx' = idx + 1
    /\ pc' = "loop"
    /\ UNCHANGED <<dirExists, folder, dirFiles, outName, fileOpen, files, resp,
                   norm, locals, modelCalls, exitCode>>

\* Lines 230-242: the loop is over; footer, close, success message, return.
Finish ==
    /\ pc = "loop"
    /\ idx > Len(files)
    /\ doc' = Append(doc, Footer)
    /\ fileOpen' = "closed"
    /\ console' = Append(console, Msg("successfully_created", outName))
    /\ pc' = "done"
    /\ exitCode' = 0
    /\ UNCHANGED <<dirExists, folder, dirFiles, outName, files, idx, resp, norm,
                   locals, log, modelCalls>>

Next ==
    \/ Abort
    \/ Open
    \/ SkipFile
    \/ ImageFails
    \/ ModelFails
    \/ ModelReturns
    \/ Parse
    \/ Write
    \/ Finish

Spec == Init /\ [][Next]_vars

(***************************************************************************)
(* The normaliser alone: one image, the model call has returned, and the   *)
(* response is any token sequence up to MaxTextLen.                        *)
(***************************************************************************)
NormTokens == {F, J, W, LB, RB}
NormFile == <<"a", ".", "png">>

InitNorm ==
    /\ pc = "parse"
    /\ dirExists = TRUE
    /\ folder = <<"d", "/">>
    /\ dirFiles = {NormFile}
    /\ outName = <<"out", ".", "html">>
    /\ fileOpen = "open"
    /\ doc = <<Header>>
    /\ files = <<NormFile>>
    /\ idx = 1
    /\ \E n \in 0..MaxTextLen : resp \in [1..n -> NormTokens]
    /\ norm = NoNorm
    /\ locals = NoLocals
    /\ console = <<Msg("processing_poster_images", <<>>), Msg("processing", NormFile)>>
    /\ log = <<>>
    /\ modelCalls = 1
    /\ exitCode = -1

NextNorm == Parse \/ Write

NormSpec == InitNorm /\ [][NextNorm]_vars

(***************************************************************************)
(* Vocabulary of the properties.                                           *)
(***************************************************************************)
\* The images of the listing, in the order the loop reaches them.
Images == SelectSeq(files, IsImage)

TextEntries == {i \in 1..Len(log) : log[i].kind = "text"}
ErrorEntries == {i \in 1..Len(log) : log[i].kind \in {"image_error", "model_error"}}

\* The lines the iteration of entry e wrote.
BlockOf(e) == SubSeq(doc, e.first, e.last)

\* The document is the header, then the images' lines back to back, then
\* (once the run is done) the footer.
BlocksBackToBack ==
    /\ doc # <<>> /\ doc[1] = Header
    /\ \A i \in 1..Len(log) :
          /\ log[i].first = (IF i = 1 THEN 2 ELSE log[i - 1].last + 1)
          /\ log[i].last >= log[i].first - 1
    /\ Len(doc) = (IF log = <<>> THEN 1 ELSE log[Len(log)].last)
                  + (IF pc = "done" THEN 1 ELSE 0)
    /\ pc = "done" => doc[Len(doc)] = Footer

Templates(block) == [i \in 1..Len(block) |-> block[i].tpl]

OpenTemplates == {"entry_open", "err_open"}
CloseTemplates == {"entry_close", "err_close"}

\* One container, opened by the first line and closed by the last.
CompleteBlock(block) ==
    /\ Len(block) >= 2
    /\ block[1].tpl \in OpenTemplates
    /\ block[Len(block)].tpl \in CloseTemplates
    /\ \A i \in 2..Len(block) : block[i].tpl \notin OpenTemplates
    /\ \A i \in 1..(Len(block) - 1) : block[i].tpl \notin CloseTemplates

StructuredTemplates ==
    << "entry_open", "entry_h2", "entry_authors", "entry_a_open", "entry_img",
       "entry_a_close",
       "section_open", "title_research_question", "section_p", "section_close",
       "section_open", "title_methods", "section_p", "section_close",
       "section_open", "title_results", "section_p", "section_close",
       "section_open", "title_conclusions", "section_p", "section_close",
       "entry_close" >>

\* The block the fallback is documented to give for entry e.
FallbackBlockOf(e) ==
    << Line("entry_open", <<>>),
       Line("entry_h2", <<Escape(Stem(e.file))>>),
       Line("entry_authors", << <<"Unknown Authors">> >>),
       Line("entry_a_open", <<Escape(e.path)>>),
       Line("entry_img", <<Escape(e.path), Escape(Stem(e.file))>>),
       Line("entry_a_close", <<>>),
       Line("summary_h3", <<>>),
       Line("summary_p", <<Escape(Flatten(e.text))>>),
       Line("entry_close", <<>>) >>

\* The error block for entry e.
ErrorBlockOf(e) ==
    << Line("err_open", <<>>),
       Line("err_h2", <<Escape(e.file)>>),
       Line("err_authors", <<>>),
       Line("err_a_open", <<Escape(e.path)>>),
       Line("err_img", <<Escape(e.path)>>),
       Line("err_a_close", <<>>),
       Line("err_p", <<Escape(e.msg)>>),
       Line("err_close", <<>>) >>

\* C1: every image whose response fails decoding is rendered as the fallback
\* block: title the file name without extension, authors "Unknown Authors",
\* one Summary section holding its own escaped response, no labelled section.
C1_DecodeFailureGivesFallbackBlock ==
    \A i \in TextEntries :
        log[i].decoded = "fail" => BlockOf(log[i]) = FallbackBlockOf(log[i])

\* C2: the block written for an image depends only on that image's own file
\* name, path and model outcome: it is the block the same input gives as the
\* first image of a run.
C2_BlockDependsOnOwnInputOnly ==
    /\ \A i \in TextEntries :
          BlockOf(log[i]) =
              ProcessResponse(NoLocals, log[i].file, log[i].path, log[i].text).block
    /\ \A i \in ErrorEntries : BlockOf(log[i]) = ErrorBlockOf(log[i])

\* C3: a failing image read or model call gives exactly one error block for
\* that image and nothing else; the later images are still processed, and the
\* run ends with the footer and the success message.
C3_FailureIsIsolated ==
    /\ \A i \in ErrorEntries : BlockOf(log[i]) = ErrorBlockOf(log[i])
    /\ Len(log) <= Len(Images)
    /\ \A i \in 1..Len(log) :
          /\ log[i].file = Images[i]
          /\ log[i].path = JoinPath(folder, Images[i])
    /\ pc \in {"loop", "parse", "write", "done"} => BlocksBackToBack
    /\ pc = "done" =>
          /\ Len(log) = Len(Images)
          /\ fileOpen = "closed"
          /\ console[Len(console)] = Msg("successfully_created", outName)
          /\ exitCode = 0

C3_Witness ==
    /\ pc = "done"
    /\ Len(log) = 2
    /\ log[1].kind = "model_error"
    /\ log[2].kind = "text"
    /\ log[2].outcome = "record"

\* C4: after a completed run the document is the header, one complete entry
\* block per image file in ascending order of file name, and the footer once;
\* other files give no block and no model call; a block is fully written
\* before the next model call starts.
C4_DocumentShape ==
    /\ pc = "parse" => /\ BlocksBackToBack
                        /\ \A i \in 1..Len(log) : CompleteBlock(BlockOf(log[i]))
    /\ pc = "done" =>
          /\ BlocksBackToBack
          /\ \A i \in 2..(Len(doc) - 1) : doc[i] \notin {Header, Footer}
          /\ Len(log) = Len(Images)
          /\ \A i \in 1..Len(log) :
                /\ log[i].file = Images[i]
                /\ CompleteBlock(BlockOf(log[i]))
          /\ \A i \in 1..(Len(Images) - 1) : LexLess(Images[i], Images[i + 1])
          /\ Range(Images) = {f \in dirFiles : IsImage(f)}
          /\ modelCalls <= Len(Images)

(***************************************************************************)
(* The patterns, stated on positions.                                      *)
(***************************************************************************)
\* i opens the first tagged fence of text and k is the next fence after it.
TaggedAt(text, i, k) ==
    /\ i + 1 < k /\ k <= Len(text)
    /\ text[i] = F /\ text[i + 1] = J /\ text[k] = F
    /\ \A j \in (i + 2)..(k - 1) : text[j] # F
    /\ \A j \in 1..(i - 1) : ~(text[j] = F /\ text[j + 1] = J)

\* i and k are the first two fences of text.
UntaggedAt(text, i, k) ==
    /\ i < k /\ k <= Len(text)
    /\ text[i] = F /\ text[k] = F
    /\ \A j \in 1..(k - 1) : j # i => text[j] # F

\* i is the first opening brace and k the last closing brace of text.
BraceAt(text, i, k) ==
    /\ i < k /\ k <= Len(text)
    /\ text[i] = LB /\ text[k] = RB
    /\ \A j \in 1..(i - 1) : text[j] # LB
    /\ \A j \in (k + 1)..Len(text) : text[j] # RB

Positions(text) == (1..Len(text)) \X (1..Len(text))

HasTagged(text) == \E p \in Positions(text) : TaggedAt(text, p[1], p[2])
HasUntagged(text) == \E p \in Positions(text) : UntaggedAt(text, p[1], p[2])
HasBrace(text) == \E p \in Positions(text) : BraceAt(text, p[1], p[2])

\* The pattern that has precedence in text, and the text it delimits.
Precedence(text) ==
    IF HasTagged(text)
    THEN LET p == CHOOSE p \in Positions(text) : TaggedAt(text, p[1], p[2])
         IN  [which |-> "tagged", inner |-> SubSeq(text, p[1] + 2, p[2] - 1)]
    ELSE IF HasUntagged(text)
    THEN LET p == CHOOSE p \in Positions(text) : UntaggedAt(text, p[1], p[2])
         IN  [which |-> "untagged", inner |-> SubSeq(text, p[1] + 1, p[2] - 1)]
    ELSE IF HasBrace(text)
    THEN LET p == CHOOSE p \in Positions(text) : BraceAt(text, p[1], p[2])
         IN  [which |-> "brace", inner |-> SubSeq(text, p[1], p[2])]
    ELSE [which |-> "whole", inner |-> text]

\* An object all of whose values for the six keys are text.
IsRecordText(cand) ==
    /\ Decode(cand).kind = "object"
    /\ \A i \in 1..Len(Fields) :
          Get(Decode(cand).members, Fields[i].key, <<>>).txt

\* C5: the candidate chosen for decoding follows the precedence tagged fence >
\* untagged fence > brace-delimited substring > trimmed whole input; valid
\* data inside the tagged fence is the text that is decoded, whatever other
\* fence or brace occurs elsewhere in the response.
C5_TaggedFenceWins ==
    \A n \in TextEntries :
        LET text == log[n].text
        IN  /\ log[n].which = Precedence(text).which
            /\ \A p \in Positions(text) :
                  (/\ TaggedAt(text, p[1], p[2])
                   /\ Decode(SubSeq(text, p[1] + 2, p[2] - 1)).kind # "fail")
                  => /\ log[n].which = "tagged"
                     /\ log[n].cand = Strip(SubSeq(text, p[1] + 2, p[2] - 1))
                     /\ log[n].decoded = Decode(SubSeq(text, p[1] + 2, p[2] - 1)).kind

C5_Witness ==
    \E n \in TextEntries :
        /\ log[n].which = "tagged"
        /\ log[n].decoded = "object"
        /\ log[n].outcome = "record"
        /\ Len(log[n].text) >= 2
        /\ log[n].text[1] = F
        /\ log[n].text[2] = F

\* C6 as stated: the attempts are tried in order and the first that decodes
\* wins, so a response with a candidate that decodes yields a record.
C6_FirstSuccessWins ==
    \A n \in TextEntries :
        LET text == log[n].text
        IN  (\/ SearchTagged(text).found /\ IsRecordText(SearchTagged(text).group)
             \/ SearchUntagged(text).found /\ IsRecordText(SearchUntagged(text).group)
             \/ SearchBrace(text).found /\ IsRecordText(SearchBrace(text).group)
             \/ IsRecordText(text))
            => log[n].outcome = "record"

\* C6 as amended: one candidate is selected, by the first pattern that
\* matches, and decoded once; the fallback path is taken whenever that
\* candidate gives no record, even if a candidate of lower priority decodes.
C6_SingleCandidateDecoded ==
    \A n \in TextEntries :
        LET chosen == Precedence(log[n].text)
        IN  /\ log[n].which = chosen.which
            /\ log[n].cand = Strip(chosen.inner)
            /\ log[n].outcome = "record" <=> IsRecordText(chosen.inner)
            /\ log[n].outcome = "fallback" <=> ~IsRecordText(chosen.inner)

C6_Witness ==
    \E n \in TextEntries :
        /\ log[n].which = "tagged"
        /\ log[n].decoded = "fail"
        /\ log[n].outcome = "fallback"
        /\ SearchBrace(log[n].text).found
        /\ IsRecordText(SearchBrace(log[n].text).group)

RecordKeys == <<"title", "authors", "research_question", "methods", "results",
                "conclusions">>

LocalOf(key) == IF key = "title" THEN "poster_title" ELSE key

DocumentedDefault(key) ==
    CASE key = "title" -> <<"Untitled Poster">>
      [] key = "authors" -> <<"Unknown Authors">>
      [] OTHER -> <<>>

\* The value the last member with this key carries.
LastValue(members, key) ==
    members[MaxOf({i \in 1..Len(members) : members[i].k = key})]

AllPresentText(members) ==
    \A i \in 1..Len(RecordKeys) :
        HasKey(members, RecordKeys[i]) => LastValue(members, RecordKeys[i]).txt

\* The four section paragraphs of a structured block, in order.
SectionValues(block) ==
    LET ps == SelectSeq(block, LAMBDA l : l.tpl = "section_p")
    IN  [i \in 1..Len(ps) |-> ps[i].args[1]]

\* C7 as stated, for objects whose values are text: every present key yields
\* its escaped value and every missing key the empty string, without error
\* and without fallback.
C7_MissingKeysDefaultEmpty ==
    \A n \in TextEntries :
        LET m == Decode(log[n].cand).members
        IN  (log[n].decoded = "object" /\ AllPresentText(m))
            => /\ log[n].outcome = "record"
               /\ \A i \in 1..Len(RecordKeys) :
                     log[n].loc[LocalOf(RecordKeys[i])] =
                         Bound(IF HasKey(m, RecordKeys[i])
                               THEN Escape(LastValue(m, RecordKeys[i]).s)
                               ELSE <<>>)

\* C7 as amended: for a decoded object whose present values are text, all six
\* fields are defined: a present key yields its escaped value, a missing
\* title "Untitled Poster", a missing authors "Unknown Authors", any other
\* missing key the empty string; the structured block is written with them.
C7_FieldsDefinedWithDefaults ==
    \A n \in TextEntries :
        LET m == Decode(log[n].cand).members
            field(key) == IF HasKey(m, key) THEN Escape(LastValue(m, key).s)
                          ELSE DocumentedDefault(key)
        IN  (log[n].decoded = "object" /\ AllPresentText(m))
            => /\ log[n].outcome = "record"
               /\ \A i \in 1..Len(RecordKeys) :
                     log[n].loc[LocalOf(RecordKeys[i])] = Bound(field(RecordKeys[i]))
               /\ Templates(BlockOf(log[n])) = StructuredTemplates
               /\ BlockOf(log[n])[2].args = <<field("title")>>
               /\ BlockOf(log[n])[3].args = <<field("authors")>>
               /\ SectionValues(BlockOf(log[n])) =
                     <<field("research_question"), field("methods"),
                       field("results"), field("conclusions")>>

C7_Witness ==
    \E n \in TextEntries :
        /\ log[n].outcome = "record"
        /\ ~HasKey(Decode(log[n].cand).members, "authors")
        /\ ~HasKey(Decode(log[n].cand).members, "results")
        /\ HasKey(Decode(log[n].cand).members, "title")
        /\ HasKey(Decode(log[n].cand).members, "methods")

EntityNames == {"amp;", "lt;", "gt;", "quot;", "#x27;"}

EntityChar(name) ==
    CASE name = "amp;" -> "&" [] name = "lt;" -> "<" [] name = "gt;" -> ">"
      [] name = "quot;" -> "\"" [] OTHER -> "'"

\* No raw markup character: each "&" starts an entity.
Safe(a) ==
    \A i \in 1..Len(a) :
        /\ a[i] \notin {"<", ">", "\"", "'"}
        /\ a[i] = "&" => (i < Len(a) /\ a[i + 1] \in EntityNames)

\* What a browser reads back from escaped text.
RECURSIVE Unescape(_)
Unescape(a) ==
    IF a = <<>> THEN <<>>
    ELSE IF Head(a) = "&" /\ Len(a) >= 2 /\ a[2] \in EntityNames
         THEN <<EntityChar(a[2])>> \o Unescape(SubSeq(a, 3, Len(a)))
         ELSE <<Head(a)>> \o Unescape(Tail(a))

LinesOf(block, tpls) == SelectSeq(block, LAMBDA l : l.tpl \in tpls)

\* C8: text from the response, the file name, the image path or an error
\* message is written only in escaped form, in every block variant and in the
\* href, src and alt attributes; read back, it is the text that came in.
C8_OnlyEscapedText ==
    /\ \A i \in 1..Len(doc) : \A j \in 1..Len(doc[i].args) : Safe(doc[i].args[j])
    /\ \A n \in 1..Len(log) :
          /\ \A l \in Range(LinesOf(BlockOf(log[n]),
                                    {"entry_a_open", "entry_img", "err_a_open", "err_img"})) :
                Unescape(l.args[1]) = log[n].path
          /\ \A l \in Range(LinesOf(BlockOf(log[n]), {"err_h2"})) :
                Unescape(l.args[1]) = log[n].file
          /\ \A l \in Range(LinesOf(BlockOf(log[n]), {"summary_p"})) :
                Unescape(l.args[1]) = Flatten(log[n].text)
          /\ n \in ErrorEntries =>
                \A l \in Range(LinesOf(BlockOf(log[n]), {"err_p"})) :
                    Unescape(l.args[1]) = log[n].msg

C8_Witness ==
    /\ pc = "done"
    /\ Len(log) = 2
    /\ log[1].kind = "model_error"
    /\ log[2].outcome = "fallback"
    /\ "summary_p" \in Range(Templates(BlockOf(log[2])))
    /\ "\"" \in Range(folder)
    /\ "'" \in Range(log[2].file)
    /\ "<" \in Range(Flatten(log[2].text))

\* C9: with no input directory the run aborts before any image: no model
\* call, no output document, an error message, no success message, and a
\* failure status that differs from the status of a successful run.
C9_MissingFolderFails ==
    pc = "aborted" =>
        /\ modelCalls = 0
        /\ fileOpen = "none"
        /\ doc = <<>>
        /\ log = <<>>
        /\ console = <<Msg("error_no_folder", folder)>>
        /\ exitCode # 0

\* C10: whenever the selected candidate decodes to an object, the image is
\* rendered as a record block with the four labelled sections, whatever the
\* object holds; a value that is not text does not trigger the fallback.
C10_DecodedAlwaysRecord ==
    \A n \in TextEntries :
        log[n].decoded = "object"
        => /\ log[n].outcome = "record"
           /\ Templates(BlockOf(log[n])) = StructuredTemplates

====
